---- MODULE Spec2Model ----
(***************************************************************************)
(* A model of the approximate query engine of apps/backend:               *)
(*   - FastAQE (flask_api/engine.py): __init__, fit, query                  *)
(*   - the serving layer (flask_api/api.py): /reload, /upload, /query       *)
(*   - calculate_accuracy (flask_api/engine.py)                            *)
(*   - SketchingQueryEngine (loader/sketching.py): _hyperloglog, _countmin *)
(*   - SamplingQueryEngine (loader/sampling.py): _reservoir_sampling       *)
(*   - StreamingQueryEngine (continuous.py): ingest, sliding_window        *)
(* Each component has a specification of its own (Spec, CaseSpec, ApiSpec, *)
(* AccuracySpec, SketchSpec, SamplingSpec, StreamSpec); the variables of   *)
(* the other components keep their initial values in it.                   *)
(*                                                                         *)
(* Conventions                                                             *)
(*   - a fraction is an integer number of thousandths (Permille)           *)
(*   - a name (a query token, a column name) is a record [base, cs]: the   *)
(*     letters of the name, and the letter case they are written in, so    *)
(*     that str.upper / str.lower are real conversions                     *)
(*   - a cell of a dataframe is a record [k, v]: k is "num", "str" or      *)
(*     "nan" (a missing value), v is the number, or the index of the       *)
(*     string in StrTab                                                    *)
(*   - an HLL sketch is modelled by the set of strings it was updated      *)
(*     with, a KLL sketch by the sequence of numbers it was updated with   *)
(***************************************************************************)
EXTENDS Integers, Sequences, FiniteSets, TLC

VARIABLES
    df,          \* engine spec: the dataset handed to fit
    cfg,         \* engine spec: dim_cols / numeric_cols / distinct_cols handed to fit
    eng,         \* engine spec: the FastAQE instance (its fields)
    epc,         \* engine spec: "new" | "ready" | "failed"
    fitted,      \* engine spec: the instance as it was when fit returned
    last,        \* engine spec: the last query string and what query() did with it
    aqe_engine,  \* api: global aqe_engine (0 is None, else an index into engines)
    raw_df,      \* api: global raw_df
    engine_params, \* api: global engine_params
    engines,     \* api: every FastAQE instance built so far, with its fit progress
    req,         \* api: the requests of the run, one record per request thread
    sk_col,      \* sketching: the column of self.df a query names
    sk_out,      \* sketching: the last call of _hyperloglog / _countmin and its result
    rsv,         \* sampling: the locals of _reservoir_sampling, and its result
    acc,         \* accuracy: the arguments of calculate_accuracy and its report
    stream,      \* streaming: the StreamingQueryEngine instance (data, columns)
    st_now,      \* streaming: the clock time.time() reads
    st_log,      \* streaming: every (timestamp, row) appended to the deque so far
    st_out       \* streaming: the last sliding_window call and its result

vars == <<df, cfg, eng, epc, fitted, last, aqe_engine, raw_df, engine_params, engines, req,
          sk_col, sk_out, rsv, acc, stream, st_now, st_log, st_out>>
engineVars == <<df, cfg, eng, epc, fitted, last>>
apiVars == <<aqe_engine, raw_df, engine_params, engines, req>>
sketchVars == <<sk_col, sk_out>>
samplingVars == <<rsv>>
accuracyVars == <<acc>>
streamVars == <<stream, st_now, st_log, st_out>>
\* the variables of the loader engines, of calculate_accuracy and of the
\* streaming engine
toolVars == <<sketchVars, samplingVars, accuracyVars, streamVars>>

-----------------------------------------------------------------------------
(* Bounds of the model *)

\* the largest number of rows of a dataset
MaxRows == 3

-----------------------------------------------------------------------------
(* Numbers *)

\* fractions are counted in thousandths: 0.001 is the smallest sample_fraction
\* the serving layer accepts
Permille == 1000

\* kll_floats_sketch(k=self.kll_k)
KllK == 256

\* Python's round(): to the nearest integer, a tie to the even one.
\* num / den with den > 0 and num >= 0
RoundHalfEven(num, den) ==
    LET q == num \div den
        r == num % den
    IN  IF 2 * r < den THEN q
        ELSE IF 2 * r > den THEN q + 1
        ELSE IF q % 2 = 0 THEN q ELSE q + 1

RECURSIVE SeqSum(_)
SeqSum(s) == IF s = <<>> THEN 0 ELSE Head(s) + SeqSum(Tail(s))

Range(s) == {s[i] : i \in DOMAIN s}

EmptyMap == [x \in {} |-> {}]

-----------------------------------------------------------------------------
(* Names and their letter case *)

\* tokens without letters: upper() and lower() leave them as they are
Caseless == {"0.5", "0", "1", "1.5", "-0.1", ""}

N(b) == [base |-> b, cs |-> "lower"]
NU(b) == [base |-> b, cs |-> "upper"]
NM(b) == [base |-> b, cs |-> "mixed"]

\* str.upper()
Upper(w) == IF w.base \in Caseless THEN w ELSE [w EXCEPT !.cs = "upper"]
\* str.lower()
Lower(w) == IF w.base \in Caseless THEN w ELSE [w EXCEPT !.cs = "lower"]

-----------------------------------------------------------------------------
(* Dataframes *)

StrTab == <<"A", "B", "u1", "u2">>

Num(n) == [k |-> "num", v |-> n]
Str(i) == [k |-> "str", v |-> i]
NaN == [k |-> "nan", v |-> 0]

\* str(val) of a cell, as fit hands it to the HLL sketch
PyStr(c) ==
    IF c.k = "str" THEN StrTab[c.v]
    ELSE IF c.k = "nan" THEN "nan"
    ELSE <<"0.0", "1.0", "2.0", "3.0", "4.0", "5.0", "6.0", "7.0">>[c.v + 1]

\* the columns generate_data.py writes
AllCols == {N("category"), N("amount"), N("value"), N("user_id")}

Row(cat, amt, val, uid) ==
    (N("category") :> cat) @@ (N("amount") :> amt) @@ (N("value") :> val) @@ (N("user_id") :> uid)

\* the rows datasets are made of: two categories, a repeated user, a missing
\* amount and a missing user_id
RowSpace == <<
    Row(Str(1), Num(1), Num(7), Str(3)),
    Row(Str(1), Num(2), Num(7), Str(4)),
    Row(Str(2), Num(3), Num(7), Str(3)),
    Row(Str(2), NaN,    Num(7), NaN) >>

\* row order plays no part in any summary, so a dataset lists its rows in
\* RowSpace order
IndexSeqs(n) ==
    UNION {{s \in [1..m -> 1..Len(RowSpace)] : \A i \in 1..(m - 1) : s[i] <= s[i + 1]} : m \in 0..n}

Frame(cols, rows) == [columns |-> cols, rows |-> rows]

DataFrames(n) == {Frame(AllCols, [i \in 1..Len(s) |-> RowSpace[s[i]]]) : s \in IndexSeqs(n)}

\* pd.DataFrame()
EmptyFrame == Frame({}, <<>>)

\* df[col].dropna(), in row order
DropNa(d, col) ==
    LET F[i \in 0..Len(d.rows)] ==
            IF i = 0 THEN <<>>
            ELSE IF d.rows[i][col].k = "nan" THEN F[i - 1]
            ELSE Append(F[i - 1], d.rows[i][col])
    IN  F[Len(d.rows)]

\* the dtype pandas gives the column: object as soon as a cell is a string
IsNumeric(d, col) == \A i \in 1..Len(d.rows) : d.rows[i][col].k # "str"

\* the key of row i under groupby(cols); groupby drops a row whose key has a NaN
GroupKey(d, cols, i) == [j \in 1..Len(cols) |-> d.rows[i][cols[j]]]
HasKey(d, cols, i) == \A j \in 1..Len(cols) : d.rows[i][cols[j]].k # "nan"
GroupKeys(d, cols) == {GroupKey(d, cols, i) : i \in {x \in 1..Len(d.rows) : HasKey(d, cols, x)}}
Members(d, cols, key) == {i \in 1..Len(d.rows) : HasKey(d, cols, i) /\ GroupKey(d, cols, i) = key}

RECURSIVE SumOver(_, _)
SumOver(f, S) == IF S = {} THEN 0 ELSE LET x == CHOOSE y \in S : TRUE IN f[x] + SumOver(f, S \ {x})

-----------------------------------------------------------------------------
(* Sampling with replacement (pandas sample(frac=f, replace=True)) *)

\* the number of rows sample(frac=f) draws from n rows: round(f * n)
SampleSize(frac, n) == RoundHalfEven(frac * n, Permille)

\* groupby(dim_cols).sample(frac, replace=True): from every group, round(frac * size)
\* rows of the group, any of them any number of times. A draw is the number of
\* times each row of the dataset was taken.
StratifiedDraws(d, dims, frac) ==
    LET n == Len(d.rows)
    IN  {b \in [1..n -> 0..SampleSize(frac, n)] :
            /\ \A i \in 1..n : ~HasKey(d, dims, i) => b[i] = 0
            /\ \A key \in GroupKeys(d, dims) :
                 SumOver(b, Members(d, dims, key)) =
                     SampleSize(frac, Cardinality(Members(d, dims, key)))}

\* df.sample(frac, replace=True): round(frac * len(df)) rows, any of them any
\* number of times
UniformDraws(d, frac) ==
    LET n == Len(d.rows)
    IN  {b \in [1..n -> 0..SampleSize(frac, n)] : SumOver(b, 1..n) = SampleSize(frac, n)}

\* the rows of a draw
RECURSIVE Repeat(_, _)
Repeat(x, k) == IF k = 0 THEN <<>> ELSE <<x>> \o Repeat(x, k - 1)

DrawRows(d, b) ==
    LET F[i \in 0..Len(d.rows)] ==
            IF i = 0 THEN <<>> ELSE F[i - 1] \o Repeat(d.rows[i], b[i])
    IN  F[Len(d.rows)]

\* the draws fit can make for this dataset and configuration (one empty draw
\* when grouping raises before any row is drawn)
Draws(d, dims, frac) ==
    IF dims = <<>> THEN UniformDraws(d, frac)
    ELSE IF Range(dims) \subseteq d.columns THEN StratifiedDraws(d, dims, frac)
    ELSE {[i \in 1..Len(d.rows) |-> 0]}

-----------------------------------------------------------------------------
(* FastAQE *)

\* a number as the caller gives it: t is "int", "float" or "str", v the value
\* (of a float: in thousandths)
JInt(n) == [t |-> "int", v |-> n]
JFloat(pm) == [t |-> "float", v |-> pm]
JStr == [t |-> "str", v |-> 0]

\* FastAQE.__init__: the two parameters are stored, nothing is built
NewEngine(frac, p) ==
    [sample_frac |-> frac,
     hll_p |-> p,
     sample_df |-> EmptyFrame,
     total_rows |-> 0,
     hll_sketches |-> EmptyMap,
     kll_k |-> KllK,
     kll_sketches |-> EmptyMap]

\* hll_sketch(self.hll_p), the default factory of hll_sketches: the binding takes
\* an int lg_k, and the sketch a lg_k of 4..21
HllCtorOk(p) == p.t = "int" /\ p.v >= 4 /\ p.v <= 21

\* a fit in progress: the instance, where fit is, the column it is at, and the
\* exception it raised ("" for none)
FitAt(e, pc, i, exc) == [e |-> e, pc |-> pc, i |-> i, exc |-> exc]
StartFit(e) == FitAt(e, "rows", 1, "")

\* engine.py 75-77: total_rows, and the empty dataset is refused
FitRows(f, d) ==
    LET e1 == [f.e EXCEPT !.total_rows = Len(d.rows)]
    IN  IF Len(d.rows) = 0 THEN FitAt(e1, "raised", 1, "ValueError")
        ELSE FitAt(e1, "sample", 1, "")

\* engine.py 81-85: the sample table; b is the draw sample() makes
FitSample(f, d, c, b) ==
    IF c.dim_cols # <<>> /\ ~(Range(c.dim_cols) \subseteq d.columns)
    THEN FitAt(f.e, "raised", 1, "KeyError")
    ELSE FitAt([f.e EXCEPT !.sample_df = Frame(d.columns, DrawRows(d, b))], "hll", 1, "")

\* engine.py 89-92, one column: self.hll_sketches[col] creates the sketch, then
\* df[col] is read and every value left by dropna() is fed as str(val)
FitHllColumn(f, d, c) ==
    LET col == c.distinct_cols[f.i]
        sk == f.e.hll_sketches
        created == IF col \in DOMAIN sk THEN sk ELSE sk @@ (col :> {})
        vals == DropNa(d, col)
    IN  IF col \notin DOMAIN sk /\ ~HllCtorOk(f.e.hll_p)
        THEN FitAt(f.e, "raised", f.i, "TypeError")
        ELSE IF col \notin d.columns
        THEN FitAt([f.e EXCEPT !.hll_sketches = created], "raised", f.i, "KeyError")
        ELSE FitAt([f.e EXCEPT !.hll_sketches =
                        [created EXCEPT ![col] = @ \cup {PyStr(vals[j]) : j \in 1..Len(vals)}]],
                   IF f.i < Len(c.distinct_cols) THEN "hll" ELSE "kll",
                   IF f.i < Len(c.distinct_cols) THEN f.i + 1 ELSE 1, "")

FitHll(f, d, c) ==
    IF f.i > Len(c.distinct_cols) THEN FitAt(f.e, "kll", 1, "") ELSE FitHllColumn(f, d, c)

\* the values a KLL floats sketch takes before update() meets a string
NumericPrefix(vals) ==
    LET F[i \in 0..Len(vals)] ==
            IF i = 0 THEN <<>>
            ELSE IF \E j \in 1..i : vals[j].k = "str" THEN F[i - 1]
            ELSE Append(F[i - 1], vals[i].v)
    IN  F[Len(vals)]

\* engine.py 96-99, one column
FitKllColumn(f, d, c) ==
    LET col == c.numeric_cols[f.i]
        sk == f.e.kll_sketches
        created == IF col \in DOMAIN sk THEN sk ELSE sk @@ (col :> <<>>)
        vals == DropNa(d, col)
        fed == [created EXCEPT ![col] = @ \o NumericPrefix(vals)]
    IN  IF col \notin d.columns
        THEN FitAt([f.e EXCEPT !.kll_sketches = created], "raised", f.i, "KeyError")
        ELSE IF \E j \in 1..Len(vals) : vals[j].k = "str"
        THEN FitAt([f.e EXCEPT !.kll_sketches = fed], "raised", f.i, "TypeError")
        ELSE FitAt([f.e EXCEPT !.kll_sketches = fed],
                   IF f.i < Len(c.numeric_cols) THEN "kll" ELSE "done",
                   IF f.i < Len(c.numeric_cols) THEN f.i + 1 ELSE 1, "")

FitKll(f, d, c) ==
    IF f.i > Len(c.numeric_cols) THEN FitAt(f.e, "done", 1, "") ELSE FitKllColumn(f, d, c)

\* one step of FastAQE.fit
FitStep(f, d, c, b) ==
    CASE f.pc = "rows" -> FitRows(f, d)
      [] f.pc = "sample" -> FitSample(f, d, c, b)
      [] f.pc = "hll" -> FitHll(f, d, c)
      [] f.pc = "kll" -> FitKll(f, d, c)
      [] OTHER -> f

FitOver(f) == f.pc \in {"done", "raised"}

\* FastAQE.fit, from the call to its return or to the exception it raises
RECURSIVE FitRun(_, _, _, _)
FitRun(f, d, c, b) == IF FitOver(f) THEN f ELSE FitRun(FitStep(f, d, c, b), d, c, b)

fit(e, d, c, b) == FitRun(StartFit(e), d, c, b)

-----------------------------------------------------------------------------
(* FastAQE.query *)

\* a query string is a sequence of pieces: names, and runs of whitespace
WS == [base |-> " ", cs |-> "lower"]

\* q_str.strip().upper().split()
Tokens(s) ==
    LET F[i \in 0..Len(s)] ==
            IF i = 0 THEN <<>>
            ELSE IF s[i] = WS THEN F[i - 1]
            ELSE Append(F[i - 1], Upper(s[i]))
    IN  F[Len(s)]

\* a keyword as the code spells it, in capitals
Kw(b) == [base |-> b, cs |-> "upper"]

\* float(token), in thousandths; NoFloat when float() raises ValueError
NoFloat == -9999
ParseFloat(w) ==
    CASE w.base = "0.5" -> 500
      [] w.base = "0" -> 0
      [] w.base = "1" -> 1000
      [] w.base = "1.5" -> 1500
      [] w.base = "-0.1" -> -100
      [] OTHER -> NoFloat

\* what query() gives back: an exception that leaves query(), the error
\* dictionary of its except clause, or the result dictionary
Raised(exc) == [kind |-> "raise", exc |-> exc, keys |-> {}, calls |-> <<>>]
Failed(exc, calls) ==
    [kind |-> "error", exc |-> exc, keys |-> {"error", "explanation"}, calls |-> calls]
Answer(path, val, calls) ==
    [kind |-> "ok", path |-> path, approx_result |-> val,
     keys |-> {"query", "approx_result", "estimated_error", "query_time_sec", "explanation"},
     calls |-> calls]

Out(o, e) == [out |-> o, e |-> e]

\* a call of a sketch's method
Call(op, col, arg) == [op |-> op, col |-> col, arg |-> arg]

\* self.hll_sketches[col] / self.kll_sketches[col] on the defaultdicts: a missing
\* key is created with an empty sketch
HllItem(e, col) ==
    IF col \in DOMAIN e.hll_sketches THEN e
    ELSE [e EXCEPT !.hll_sketches = @ @@ (col :> {})]
KllItem(e, col) ==
    IF col \in DOMAIN e.kll_sketches THEN e
    ELSE [e EXCEPT !.kll_sketches = @ @@ (col :> <<>>)]

\* engine.py 119-122: the guard, then the lookup
HllLookupUnguarded(e, col) == [exc |-> "", e |-> HllItem(e, col)]
HllLookup(e, col) ==
    IF col \notin DOMAIN e.hll_sketches THEN [exc |-> "ValueError", e |-> e]
    ELSE [exc |-> "", e |-> HllItem(e, col)]

\* engine.py 154-157 and 177-180: the guard, then the lookup
KllLookupUnguarded(e, col) == [exc |-> "", e |-> KllItem(e, col)]
KllLookup(e, col) ==
    IF col \notin DOMAIN e.kll_sketches THEN [exc |-> "ValueError", e |-> e]
    ELSE [exc |-> "", e |-> KllItem(e, col)]

\* the sorted values of a KLL sketch
RECURSIVE SortedVals(_)
SortedVals(s) ==
    IF s = <<>> THEN <<>>
    ELSE LET m == CHOOSE i \in DOMAIN s : \A j \in DOMAIN s : s[i] <= s[j]
         IN  <<s[m]>> \o SortedVals([j \in 1..(Len(s) - 1) |-> IF j < m THEN s[j] ELSE s[j + 1]])

\* kll_floats_sketch.get_quantile(rank): the library raises on an empty sketch and
\* on a rank outside [0, 1]
KllQuantileRaises(vals, q) == vals = <<>> \/ q < 0 \/ q > Permille

\* ... and gives the value of that rank otherwise
KllGetQuantile(vals, q) ==
    LET n == Len(vals)
        r == (q * n + Permille - 1) \div Permille
    IN  SortedVals(vals)[IF r < 1 THEN 1 ELSE r]

\* engine.py 116-132
QueryCountDistinct(e, parts) ==
    IF Len(parts) < 3 THEN Out(Failed("IndexError", <<>>), e)
    ELSE LET col == Lower(parts[3])
             lk == HllLookup(e, col)
         IN  IF lk.exc # "" THEN Out(Failed(lk.exc, <<>>), lk.e)
             ELSE Out(Answer("hll", Cardinality(lk.e.hll_sketches[col]),
                             <<Call("get_estimate", col, 0), Call("get_upper_bound", col, 1)>>),
                      lk.e)

\* the sum of a column over rows of the sample, NaN skipped
ColSum(d, col, S) ==
    SumOver([i \in 1..Len(d.rows) |-> IF d.rows[i][col].k = "num" THEN d.rows[i][col].v ELSE 0], S)

\* engine.py 134-149: sample_df.groupby(group_col)[col_to_sum].sum(), divided by
\* sample_frac. A sum of strings cannot be divided: TypeError.
QuerySumGroupBy(e, parts) ==
    IF Len(parts) < 5 THEN Out(Failed("IndexError", <<>>), e)
    ELSE LET col_to_sum == Lower(parts[2])
             group_col == Lower(parts[5])
             s == e.sample_df
             keys == GroupKeys(s, <<group_col>>)
         IN  IF group_col \notin s.columns \/ col_to_sum \notin s.columns
             THEN Out(Failed("KeyError", <<>>), e)
             ELSE IF keys # {} /\ ~IsNumeric(s, col_to_sum)
             THEN Out(Failed("TypeError", <<>>), e)
             ELSE Out(Answer("sample",
                             [sums |-> [key \in keys |->
                                          ColSum(s, col_to_sum, Members(s, <<group_col>>, key))],
                              divided_by |-> e.sample_frac,
                              col |-> col_to_sum, group |-> group_col],
                             <<>>),
                      e)

\* the quantile lookup MEDIAN and QUANTILE share
QueryKll(e, col, q) ==
    LET lk == KllLookup(e, col)
        call == <<Call("get_quantile", col, q)>>
    IN  IF lk.exc # "" THEN Out(Failed(lk.exc, <<>>), lk.e)
        ELSE IF KllQuantileRaises(lk.e.kll_sketches[col], q)
        THEN Out(Failed("LibraryError", call), lk.e)
        ELSE Out(Answer("kll", KllGetQuantile(lk.e.kll_sketches[col], q), call), lk.e)

\* engine.py 151-167
QueryMedian(e, parts) ==
    IF Len(parts) < 2 THEN Out(Failed("IndexError", <<>>), e)
    ELSE QueryKll(e, Lower(parts[2]), 500)

\* engine.py 169-190
QueryQuantile(e, parts) ==
    IF Len(parts) < 3 THEN Out(Failed("ValueError", <<>>), e)
    ELSE IF ParseFloat(parts[3]) = NoFloat THEN Out(Failed("ValueError", <<>>), e)
    ELSE QueryKll(e, Lower(parts[2]), ParseFloat(parts[3]))

\* FastAQE.query: parts[0] is read before the try block
query(e, s) ==
    LET parts == Tokens(s)
    IN  IF parts = <<>> THEN Out(Raised("IndexError"), e)
        ELSE IF parts[1] = Kw("count") /\ Len(parts) > 1 /\ parts[2] = Kw("distinct")
        THEN QueryCountDistinct(e, parts)
        ELSE IF parts[1] = Kw("sum") /\ Kw("group") \in Range(parts) /\ Kw("by") \in Range(parts)
        THEN QuerySumGroupBy(e, parts)
        ELSE IF parts[1] = Kw("median") THEN QueryMedian(e, parts)
        ELSE IF parts[1] = Kw("quantile") THEN QueryQuantile(e, parts)
        ELSE Out(Failed("ValueError", <<>>), e)

-----------------------------------------------------------------------------
(* The engine on its own: one instance is built, fitted once and queried *)

\* ENGINE_COLUMN_CONFIG of api.py
ENGINE_COLUMN_CONFIG ==
    [dim_cols |-> <<N("category")>>,
     numeric_cols |-> <<N("amount"), N("value")>>,
     distinct_cols |-> <<N("user_id"), N("category")>>]

\* the configurations fit is called with: the serving layer's, one without
\* dimension columns, and three that name a column the dataset does not have
\* (as a distinct, a numeric and a dimension column)
Configs ==
    {ENGINE_COLUMN_CONFIG,
     [dim_cols |-> <<>>, numeric_cols |-> <<N("value")>>, distinct_cols |-> <<N("user_id")>>],
     [dim_cols |-> <<N("category")>>, numeric_cols |-> <<N("amount")>>,
      distinct_cols |-> <<N("user_id"), N("price")>>],
     [dim_cols |-> <<N("category")>>, numeric_cols |-> <<N("amount"), N("price")>>,
      distinct_cols |-> <<N("user_id")>>],
     [dim_cols |-> <<N("price")>>, numeric_cols |-> <<N("amount")>>,
      distinct_cols |-> <<N("user_id")>>]}

\* sample fractions: the default 0.01, a half, and the whole
Fractions == {10, 500, 1000}

\* the default hll_precision
DefaultHllP == JInt(14)

\* the columns queries name: three of the dataset and one it does not have
QCols == {N("category"), N("amount"), N("user_id"), N("price")}

QTokens == {N("0.5"), N("0"), N("1"), N("1.5"), N("-0.1"), N("abc")}

\* the query strings; consecutive names are separated by whitespace, WS is
\* whitespace at the ends of the string
QueryStrings ==
    {<<>>, <<WS>>, <<N("foo"), N("bar")>>, <<N("avg"), N("amount")>>}
    \cup {<<Kw("count"), Kw("distinct"), c>> : c \in QCols}
    \cup {<<Kw("count"), Kw("distinct")>>, <<Kw("count"), N("user_id")>>, <<Kw("count")>>,
          <<Kw("count"), Kw("distinct"), N("user_id"), N("extra")>>,
          <<NM("count"), N("distinct"), NU("user_id")>>}
    \cup {<<Kw("sum"), c, Kw("group"), Kw("by"), g>> : c \in QCols, g \in QCols}
    \cup {<<Kw("sum"), N("amount"), Kw("by"), Kw("group"), N("category")>>,
          <<Kw("sum"), N("amount"), Kw("group"), Kw("by"), N("category"), N("extra")>>,
          <<Kw("sum"), N("amount"), Kw("group"), Kw("by")>>,
          <<Kw("sum"), N("amount"), Kw("group"), N("category")>>,
          <<Kw("sum"), N("amount")>>,
          <<N("sum"), NM("amount"), N("group"), N("by"), NU("category")>>}
    \cup {<<Kw("median"), c>> : c \in QCols}
    \cup {<<Kw("median")>>, <<Kw("median"), N("amount"), N("extra")>>,
          <<WS, N("median"), NM("amount"), WS>>}
    \cup {<<Kw("quantile"), c, t>> : c \in {N("amount"), N("user_id")}, t \in QTokens}
    \cup {<<Kw("quantile"), N("amount")>>, <<Kw("quantile")>>,
          <<Kw("quantile"), N("amount"), N("0.5"), N("extra")>>}

NoQuery == [q |-> <<>>, out |-> [kind |-> "none", keys |-> {}, calls |-> <<>>]]

\* the serving layer's variables, unused while the engine is studied alone
ApiIdle ==
    /\ aqe_engine = 0
    /\ raw_df = EmptyFrame
    /\ engine_params = [sample_fraction |-> JFloat(10), hll_precision |-> JInt(14)]
    /\ engines = <<>>
    /\ req = <<>>

\* the engine's variables, unused while another component is studied
EngineIdle ==
    /\ df = EmptyFrame
    /\ cfg = ENGINE_COLUMN_CONFIG
    /\ eng = NewEngine(10, DefaultHllP)
    /\ epc = "unused"
    /\ fitted = StartFit(eng)
    /\ last = NoQuery

\* the variables of the other components, unused while the engine or the
\* serving layer is studied
NoCall == [op |-> "none"]
SketchIdle == sk_col = <<>> /\ sk_out = NoCall
SamplingIdle == rsv = NoCall
AccuracyIdle == acc = NoCall
StreamIdle ==
    /\ stream = [data |-> <<>>, columns |-> {}]
    /\ st_now = 0
    /\ st_log = <<>>
    /\ st_out = NoCall
ToolsIdle == SketchIdle /\ SamplingIdle /\ AccuracyIdle /\ StreamIdle

Init ==
    /\ df \in DataFrames(MaxRows)
    /\ cfg \in Configs
    /\ \E frac \in Fractions : eng = NewEngine(frac, DefaultHllP)
    /\ epc = "new"
    /\ fitted = StartFit(eng)
    /\ last = NoQuery
    /\ ApiIdle
    /\ ToolsIdle

\* engine.fit(df, dim_cols, numeric_cols, distinct_cols)
Fit ==
    /\ epc = "new"
    /\ \E b \in Draws(df, cfg.dim_cols, eng.sample_frac) :
         LET f == fit(eng, df, cfg, b)
         IN  /\ eng' = f.e
             /\ fitted' = f
             /\ epc' = IF f.pc = "done" THEN "ready" ELSE "failed"
    /\ UNCHANGED <<df, cfg, last>>
    /\ UNCHANGED <<apiVars, toolVars>>

\* engine.query(q_str)
Query ==
    /\ epc = "ready"
    /\ \E s \in QueryStrings :
         LET r == query(eng, s)
         IN  /\ eng' = r.e
             /\ last' = [q |-> s, out |-> r.out]
    /\ UNCHANGED <<df, cfg, epc, fitted>>
    /\ UNCHANGED <<apiVars, toolVars>>

Next == Fit \/ Query

Spec == Init /\ [][Next]_vars

-----------------------------------------------------------------------------
(* Properties of the engine *)

\* the tokens of the last query, and the forms of the grammar
LastParts == Tokens(last.q)
IsCountDistinct(p) == Len(p) = 3 /\ p[1] = Kw("count") /\ p[2] = Kw("distinct")
IsSumGroupBy(p) == Len(p) = 5 /\ p[1] = Kw("sum") /\ p[3] = Kw("group") /\ p[4] = Kw("by")
IsMedian(p) == Len(p) = 2 /\ p[1] = Kw("median")
IsQuantile(p) == Len(p) = 3 /\ p[1] = Kw("quantile")
Queried == epc = "ready" /\ last # NoQuery

\* C1: query returns a result for every input string, the empty and the
\* whitespace-only string included, and never raises; a failure carries both an
\* 'error' and an 'explanation' field.
C1_QueryNeverRaises ==
    Queried =>
        /\ last.out.kind # "raise"
        /\ last.out.kind = "error" => {"error", "explanation"} \subseteq last.out.keys

\* C4: after fit, COUNT DISTINCT <col> gives an error and no estimate whenever
\* <col> is not a configured distinct column, whether or not the dataset has the
\* column or another summary exists for it; only a configured distinct column
\* gets an estimate.
C4_CountDistinctOnlyConfigured ==
    (Queried /\ IsCountDistinct(LastParts)) =>
        /\ Lower(LastParts[3]) \notin Range(cfg.distinct_cols)
              => (last.out.kind = "error" /\ "approx_result" \notin last.out.keys)
        /\ last.out.kind = "ok"
              => (Lower(LastParts[3]) \in Range(cfg.distinct_cols) /\ last.out.path = "hll")

\* C4's case: COUNT DISTINCT on a dataset column that has a quantile sketch but
\* is no distinct column is refused
C4_Witness ==
    /\ Queried
    /\ last.q = <<Kw("count"), Kw("distinct"), N("amount")>>
    /\ N("amount") \in df.columns
    /\ N("amount") \in DOMAIN eng.kll_sketches
    /\ N("amount") \notin Range(cfg.distinct_cols)
    /\ last.out.kind = "error"

\* C5: SUM <col> GROUP BY <group_col> gives an error unless <col> is a configured
\* numeric column and <group_col> a configured dimension column.
C5_SumGroupByOnlyConfigured ==
    (Queried /\ IsSumGroupBy(LastParts)) =>
        (last.out.kind = "ok" =>
            /\ Lower(LastParts[2]) \in Range(cfg.numeric_cols)
            /\ Lower(LastParts[5]) \in Range(cfg.dim_cols))

\* C6: MEDIAN <col> is answered with quantile 0.5; QUANTILE <col> <q> is answered
\* only when <q> parses as a number in [0, 1]; a missing, non-numeric or
\* out-of-range <q> gives an error decided by the router, before the quantile
\* sketch is consulted.
C6_QuantileValidatedByRouter ==
    /\ (Queried /\ IsMedian(LastParts) /\ last.out.kind = "ok")
          => last.out.calls = <<Call("get_quantile", Lower(LastParts[2]), 500)>>
    /\ (Queried /\ Len(LastParts) >= 1 /\ LastParts[1] = Kw("quantile")) =>
          LET bad == \/ Len(LastParts) < 3
                     \/ ParseFloat(LastParts[3]) = NoFloat
                     \/ ParseFloat(LastParts[3]) < 0
                     \/ ParseFloat(LastParts[3]) > Permille
          IN  bad => (last.out.kind = "error" /\ last.out.calls = <<>>)

\* C7: a query is answered only if its tokens are exactly one of the four forms
\* COUNT DISTINCT c | SUM c GROUP BY g | MEDIAN c | QUANTILE c q.
C7_OnlyGrammarFormsAnswered ==
    (Queried /\ last.out.kind = "ok") =>
        \/ IsCountDistinct(LastParts)
        \/ IsSumGroupBy(LastParts)
        \/ IsMedian(LastParts)
        \/ IsQuantile(LastParts)

\* C8: the stratified sample keeps every group: each value of the grouping
\* columns present in the dataset is in at least one row of the sample table.
C8_StratifiedKeepsEveryGroup ==
    (epc = "ready" /\ cfg.dim_cols # <<>>) =>
        GroupKeys(df, cfg.dim_cols) \subseteq GroupKeys(eng.sample_df, cfg.dim_cols)

\* the column names a configuration uses
ConfiguredCols(c) == Range(c.dim_cols) \cup Range(c.numeric_cols) \cup Range(c.distinct_cols)

\* C9: fit on an empty dataset, or with a configured column the dataset lacks,
\* fails, and when it fails no summary has been built: the sample table is
\* empty and no sketch was created.
C9_FailFastNoPartialFit ==
    /\ (epc # "new" /\ (Len(df.rows) = 0 \/ ~(ConfiguredCols(cfg) \subseteq df.columns)))
          => epc = "failed"
    /\ epc = "failed" =>
          /\ eng.sample_df = EmptyFrame
          /\ eng.hll_sketches = EmptyMap
          /\ eng.kll_sketches = EmptyMap

\* C10: queries are read-only: after any sequence of queries the columns that have
\* a cardinality sketch, those that have a quantile sketch, the sample table, the
\* sample fraction and the hll precision are what they were when fit returned.
C10_QueriesReadOnly ==
    epc = "ready" =>
        /\ DOMAIN eng.hll_sketches = DOMAIN fitted.e.hll_sketches
        /\ DOMAIN eng.kll_sketches = DOMAIN fitted.e.kll_sketches
        /\ eng.sample_df = fitted.e.sample_df
        /\ eng.sample_frac = fitted.e.sample_frac
        /\ eng.hll_p = fitted.e.hll_p

\* C10's case: a query that names a column without a sketch has been refused, and
\* no sketch exists for that column afterwards
C10_Witness ==
    /\ Queried
    /\ last.q = <<Kw("count"), Kw("distinct"), N("price")>>
    /\ last.out.kind = "error"
    /\ N("price") \notin DOMAIN eng.hll_sketches
    /\ eng.hll_sketches # EmptyMap

-----------------------------------------------------------------------------
(* FastAQE.exact_query, the comparison the /query handler runs on raw_df *)

\* the distinct non-missing values of a column: df[col].nunique()
NUnique(d, col) == Cardinality({DropNa(d, col)[j] : j \in 1..Len(DropNa(d, col))})

\* df[col].quantile(q) in thousandths, by linear interpolation between the two
\* neighbouring order statistics
PandasQuantile(d, col, q) ==
    LET vals == SortedVals([j \in 1..Len(DropNa(d, col)) |-> DropNa(d, col)[j].v])
        pos == q * (Len(vals) - 1)
        lo == pos \div Permille + 1
        hi == IF lo < Len(vals) THEN lo + 1 ELSE lo
    IN  vals[lo] * Permille + (pos % Permille) * (vals[hi] - vals[lo])

ExactRaised(exc) == [kind |-> "raise", exc |-> exc]
ExactAnswer(val) == [kind |-> "ok", exact_result |-> val]

\* engine.py 212-241; nothing is caught here, the handler catches
exact_query(d, s) ==
    LET parts == Tokens(s)
    IN  IF parts = <<>> THEN ExactRaised("IndexError")
        ELSE IF parts[1] = Kw("count") /\ Len(parts) < 2 THEN ExactRaised("IndexError")
        ELSE IF parts[1] = Kw("count") /\ parts[2] = Kw("distinct") THEN
            IF Len(parts) < 3 THEN ExactRaised("IndexError")
            ELSE IF Lower(parts[3]) \notin d.columns THEN ExactRaised("KeyError")
            ELSE ExactAnswer(NUnique(d, Lower(parts[3])))
        ELSE IF parts[1] = Kw("sum") /\ Kw("group") \in Range(parts) THEN
            IF Len(parts) < 5 THEN ExactRaised("IndexError")
            ELSE IF Lower(parts[5]) \notin d.columns \/ Lower(parts[2]) \notin d.columns
            THEN ExactRaised("KeyError")
            ELSE ExactAnswer(
                    [sums |-> [key \in GroupKeys(d, <<Lower(parts[5])>>) |->
                                 ColSum(d, Lower(parts[2]), Members(d, <<Lower(parts[5])>>, key))],
                     numeric |-> IsNumeric(d, Lower(parts[2]))])
        ELSE IF parts[1] = Kw("quantile") THEN
            IF Len(parts) < 3 THEN ExactRaised("IndexError")
            ELSE IF ParseFloat(parts[3]) = NoFloat THEN ExactRaised("ValueError")
            ELSE IF Lower(parts[2]) \notin d.columns THEN ExactRaised("KeyError")
            ELSE IF ~IsNumeric(d, Lower(parts[2])) THEN ExactRaised("TypeError")
            ELSE IF ParseFloat(parts[3]) < 0 \/ ParseFloat(parts[3]) > Permille
            THEN ExactRaised("ValueError")
            ELSE IF DropNa(d, Lower(parts[2])) = <<>> THEN ExactAnswer(NoFloat)
            ELSE ExactAnswer(PandasQuantile(d, Lower(parts[2]), ParseFloat(parts[3])))
        ELSE IF parts[1] = Kw("median") THEN
            IF Len(parts) < 2 THEN ExactRaised("IndexError")
            ELSE IF Lower(parts[2]) \notin d.columns THEN ExactRaised("KeyError")
            ELSE IF ~IsNumeric(d, Lower(parts[2])) THEN ExactRaised("TypeError")
            ELSE IF DropNa(d, Lower(parts[2])) = <<>> THEN ExactAnswer(NoFloat)
            ELSE ExactAnswer(PandasQuantile(d, Lower(parts[2]), 500))
        ELSE ExactRaised("ValueError")

-----------------------------------------------------------------------------
(* The serving layer (api.py): request threads run the handlers of /reload,
   /upload and /query against the globals aqe_engine, raw_df, engine_params *)

\* the number of requests of a run; the threaded development server of app.run
\* serves each request on a thread of its own, so they all may overlap
MaxRequests == 2

Absent == [t |-> "absent", v |-> 0]

\* a number of a JSON body in thousandths
PermilleOf(j) == IF j.t = "int" THEN j.v * Permille ELSE j.v

\* data.get(key, default)
GetOr(j, default) == IF j = Absent THEN default ELSE j

\* the JSON bodies of /reload: none, a list, and objects whose sample_fraction
\* and hll_precision are absent, valid, of the wrong type or out of range
ReloadBodies ==
    {[shape |-> "none", sf |-> Absent, hp |-> Absent],
     [shape |-> "list", sf |-> Absent, hp |-> Absent],
     [shape |-> "dict", sf |-> JInt(1), hp |-> Absent],
     [shape |-> "dict", sf |-> JFloat(500), hp |-> JInt(12)],
     [shape |-> "dict", sf |-> Absent, hp |-> JFloat(4500)],
     [shape |-> "dict", sf |-> Absent, hp |-> JInt(3)],
     [shape |-> "dict", sf |-> JFloat(2000), hp |-> Absent],
     [shape |-> "dict", sf |-> JStr, hp |-> Absent]}

\* request.files of a request that uploads nothing
NoFile == [part |-> FALSE, name |-> "", ext |-> "", readable |-> FALSE, columns |-> {}]

\* the files of /upload: no file part, no file name, a refused extension, a file
\* pandas cannot read, and files it reads, with and without the required columns
UploadFiles ==
    {NoFile,
     [part |-> TRUE, name |-> "", ext |-> "", readable |-> FALSE, columns |-> {}],
     [part |-> TRUE, name |-> "data", ext |-> "txt", readable |-> TRUE, columns |-> AllCols],
     [part |-> TRUE, name |-> "data", ext |-> "csv", readable |-> FALSE, columns |-> {}],
     [part |-> TRUE, name |-> "data", ext |-> "csv", readable |-> TRUE, columns |-> AllCols],
     [part |-> TRUE, name |-> "data", ext |-> "parquet", readable |-> TRUE,
      columns |-> {N("category"), N("amount")}]}

\* the JSON bodies of /query: none, and a query string
QueryBodies ==
    {[has |-> FALSE, query |-> <<>>],
     [has |-> TRUE, query |-> <<>>],
     [has |-> TRUE, query |-> <<Kw("count"), Kw("distinct"), N("user_id")>>],
     [has |-> TRUE, query |-> <<Kw("sum"), N("amount"), Kw("group"), Kw("by"), N("category")>>],
     [has |-> TRUE, query |-> <<Kw("median"), N("user_id")>>]}

\* the dataset the server is started on (startup exits unless the first fit
\* succeeds)
StartFrames == {Frame(AllCols, <<RowSpace[1], RowSpace[4]>>)}

\* ALLOWED_EXTENSIONS
ALLOWED_EXTENSIONS == {"csv", "parquet"}

\* allowed_file(filename)
allowed_file(file) == file.ext # "" /\ file.ext \in ALLOWED_EXTENSIONS

\* a request: the handler that serves it ("idle": not received yet), where the
\* handler is, its locals, the response it sent (0: none yet), and whether it
\* has assigned one of the globals
IdleWorker ==
    [kind |-> "idle", file |-> NoFile, pc |-> "idle", params |-> [sample_fraction |-> Absent, hll_precision |-> Absent],
     eid |-> 0, q |-> <<>>, approx |-> NoQuery.out, approx_eid |-> 0,
     exact |-> ExactRaised(""), exact_df |-> EmptyFrame, resp |-> 0, wrote |-> FALSE]

Respond(r, status) == [r EXCEPT !.pc = "done", !.resp = status]

\* an instance of the heap: its fit in progress, the dataframe fit was called
\* with, and the draw its sample table was made from
HeapEntry(f, d, b) == [f |-> f, d |-> d, b |-> b]
NoDraw(d) == [i \in 1..Len(d.rows) |-> 0]

\* load_and_fit_engine, api.py 47-50: the instance is constructed
Construct(params, d) ==
    HeapEntry(StartFit(NewEngine(PermilleOf(params.sample_fraction), params.hll_precision)),
              d, NoDraw(d))

ApiInit ==
    /\ raw_df \in StartFrames
    /\ engine_params = [sample_fraction |-> JFloat(10), hll_precision |-> JInt(14)]
    /\ \E b \in Draws(raw_df, ENGINE_COLUMN_CONFIG.dim_cols, 10) :
         LET h == Construct(engine_params, raw_df)
             f == FitRun(h.f, raw_df, ENGINE_COLUMN_CONFIG, b)
         IN  /\ f.pc = "done"
             /\ engines = <<HeapEntry(f, raw_df, b)>>
    /\ aqe_engine = 1
    /\ req = [w \in 1..MaxRequests |-> IdleWorker]
    /\ df = EmptyFrame
    /\ cfg = ENGINE_COLUMN_CONFIG
    /\ eng = NewEngine(10, DefaultHllP)
    /\ epc = "unused"
    /\ fitted = StartFit(eng)
    /\ last = NoQuery
    /\ ToolsIdle

\* the validation of api.py 147-148: "" when both parameters pass, else the
\* response: 400 when one is out of range, 500 when a comparison raises TypeError
ValidateParams(p) ==
    IF p.sample_fraction.t = "str" THEN 500
    ELSE IF ~(1 <= PermilleOf(p.sample_fraction) /\ PermilleOf(p.sample_fraction) <= Permille) THEN 400
    ELSE IF p.hll_precision.t = "str" THEN 500
    ELSE IF ~(4 * Permille <= PermilleOf(p.hll_precision) /\ PermilleOf(p.hll_precision) <= 18 * Permille)
    THEN 400
    ELSE 0

\* reload_engine, api.py 136-148: the body is read, the parameters are completed
\* from engine_params and validated
ReloadBegin(w, body) ==
    /\ req[w].kind = "idle"
    /\ LET r == [req[w] EXCEPT !.kind = "reload"]
           p == [sample_fraction |-> GetOr(body.sf, engine_params.sample_fraction),
                 hll_precision |-> GetOr(body.hp, engine_params.hll_precision)]
       IN  req' = [req EXCEPT ![w] =
                     IF body.shape = "none" THEN Respond(r, 400)
                     ELSE IF body.shape = "list" THEN Respond(r, 500)
                     ELSE IF ValidateParams(p) # 0 THEN Respond(r, ValidateParams(p))
                     ELSE [r EXCEPT !.pc = "validated", !.params = p]]
    /\ UNCHANGED <<aqe_engine, raw_df, engine_params, engines>>
    /\ UNCHANGED <<engineVars, toolVars>>

\* a reload that publishes the instance as soon as it is constructed, before fit
ReloadCallPublishing(w) ==
    /\ req[w].kind = "reload" /\ req[w].pc = "validated"
    /\ engines' = Append(engines, Construct(req[w].params, raw_df))
    /\ aqe_engine' = Len(engines) + 1
    /\ req' = [req EXCEPT ![w].pc = "fitting", ![w].eid = Len(engines) + 1, ![w].wrote = TRUE]
    /\ UNCHANGED <<raw_df, engine_params>>
    /\ UNCHANGED <<engineVars, toolVars>>

\* api.py 153 with 47-50: load_and_fit_engine(new_params, raw_df) constructs the
\* instance; the global is not assigned
ReloadCall(w) ==
    /\ req[w].kind = "reload" /\ req[w].pc = "validated"
    /\ engines' = Append(engines, Construct(req[w].params, raw_df))
    /\ req' = [req EXCEPT ![w].pc = "fitting", ![w].eid = Len(engines) + 1]
    /\ UNCHANGED <<aqe_engine, raw_df, engine_params>>
    /\ UNCHANGED <<engineVars, toolVars>>

\* api.py 51-56: one step of engine.fit on the instance under construction; an
\* exception ends the request with 500 (api.py 162-164)
ReloadFitStep(w) ==
    /\ req[w].kind = "reload" /\ req[w].pc = "fitting"
    /\ LET h == engines[req[w].eid]
       IN  \E b \in (IF h.f.pc = "sample"
                     THEN Draws(h.d, ENGINE_COLUMN_CONFIG.dim_cols, h.f.e.sample_frac)
                     ELSE {h.b}) :
             LET f == FitStep(h.f, h.d, ENGINE_COLUMN_CONFIG, b)
             IN  /\ engines' = [engines EXCEPT ![req[w].eid] = HeapEntry(f, h.d, b)]
                 /\ req' = [req EXCEPT ![w] =
                              IF f.pc = "raised" THEN Respond(@, 500)
                              ELSE IF f.pc = "done" THEN [@ EXCEPT !.pc = "fitted"]
                              ELSE @]
    /\ UNCHANGED <<aqe_engine, raw_df, engine_params>>
    /\ UNCHANGED <<engineVars, toolVars>>

\* api.py 156: aqe_engine = new_engine
ReloadSwapEngine(w) ==
    /\ req[w].kind = "reload" /\ req[w].pc = "fitted"
    /\ aqe_engine' = req[w].eid
    /\ req' = [req EXCEPT ![w].pc = "swapped", ![w].wrote = TRUE]
    /\ UNCHANGED <<raw_df, engine_params, engines>>
    /\ UNCHANGED <<engineVars, toolVars>>

\* api.py 157-160: engine_params = new_params, and the response
ReloadSwapParams(w) ==
    /\ req[w].kind = "reload" /\ req[w].pc = "swapped"
    /\ engine_params' = req[w].params
    /\ req' = [req EXCEPT ![w] = Respond(@, 200)]
    /\ UNCHANGED <<aqe_engine, raw_df, engines>>
    /\ UNCHANGED <<engineVars, toolVars>>

\* upload_file, api.py 81-125. The file is checked, saved and read; line 102 then
\* evaluates the name required_, which is bound nowhere: NameError, caught at 121,
\* and the request ends with 500. Lines 103-119 (the fit and the assignment of
\* aqe_engine and raw_df) are never reached.
UploadStatus(file) ==
    IF ~file.part THEN 400
    ELSE IF file.name = "" THEN 400
    ELSE IF ~allowed_file(file) THEN 400
    ELSE IF ~file.readable THEN 500
    ELSE 500

\* an upload_file whose line 102 tests required_cols: a file that is read and
\* has the required columns is fitted (here a dataset of two rows) and both
\* globals are assigned
UploadSwapping(w, file) ==
    /\ req[w].kind = "idle"
    /\ LET good == /\ file.part /\ file.name # "" /\ allowed_file(file) /\ file.readable
                    /\ ConfiguredCols(ENGINE_COLUMN_CONFIG) \subseteq file.columns
           new_df == Frame(AllCols, <<RowSpace[2], RowSpace[3]>>)
       IN  IF good
           THEN \E b \in Draws(new_df, ENGINE_COLUMN_CONFIG.dim_cols,
                               PermilleOf(engine_params.sample_fraction)) :
                  /\ engines' = Append(engines,
                        HeapEntry(FitRun(Construct(engine_params, new_df).f, new_df,
                                         ENGINE_COLUMN_CONFIG, b), new_df, b))
                  /\ aqe_engine' = Len(engines) + 1
                  /\ raw_df' = new_df
                  /\ req' = [req EXCEPT ![w] =
                               Respond([@ EXCEPT !.kind = "upload", !.file = file,
                                                 !.wrote = TRUE], 200)]
           ELSE /\ req' = [req EXCEPT ![w] =
                             Respond([@ EXCEPT !.kind = "upload", !.file = file],
                                     IF UploadStatus(file) = 500 /\ file.readable
                                     THEN 400 ELSE UploadStatus(file))]
                /\ UNCHANGED <<aqe_engine, raw_df, engines>>
    /\ UNCHANGED engine_params
    /\ UNCHANGED <<engineVars, toolVars>>

Upload(w, file) ==
    /\ req[w].kind = "idle"
    /\ req' = [req EXCEPT ![w] =
                 Respond([@ EXCEPT !.kind = "upload", !.file = file], UploadStatus(file))]
    /\ UNCHANGED <<aqe_engine, raw_df, engine_params, engines>>
    /\ UNCHANGED <<engineVars, toolVars>>

\* handle_query, api.py 170-177: the engine is looked up and asked; an exception
\* of query() leaves the handler (500)
QueryApprox(w, body) ==
    /\ req[w].kind = "idle"
    /\ LET r == [req[w] EXCEPT !.kind = "query", !.q = body.query]
           a == query(engines[aqe_engine].f.e, body.query)
       IN  /\ req' = [req EXCEPT ![w] =
                        IF aqe_engine = 0 THEN Respond(r, 503)
                        ELSE IF ~body.has THEN Respond(r, 400)
                        ELSE IF a.out.kind = "raise" THEN Respond(r, 500)
                        ELSE IF a.out.kind = "error"
                        THEN Respond([r EXCEPT !.approx = a.out, !.approx_eid = aqe_engine], 400)
                        ELSE [r EXCEPT !.pc = "exact", !.approx = a.out, !.approx_eid = aqe_engine]]
           /\ engines' = IF aqe_engine = 0 \/ ~body.has THEN engines
                         ELSE [engines EXCEPT ![aqe_engine].f.e = a.e]
    /\ UNCHANGED <<aqe_engine, raw_df, engine_params>>
    /\ UNCHANGED <<engineVars, toolVars>>

\* handle_query, api.py 179-194: the exact query on raw_df, and the response
QueryExact(w) ==
    /\ req[w].kind = "query" /\ req[w].pc = "exact"
    /\ LET x == exact_query(raw_df, req[w].q)
       IN  req' = [req EXCEPT ![w] =
                     Respond([@ EXCEPT !.exact = x, !.exact_df = raw_df],
                             IF x.kind = "raise" THEN 500 ELSE 200)]
    /\ UNCHANGED <<aqe_engine, raw_df, engine_params, engines>>
    /\ UNCHANGED <<engineVars, toolVars>>

ApiNext ==
    \E w \in 1..MaxRequests :
        \/ \E body \in ReloadBodies : ReloadBegin(w, body)
        \/ ReloadCall(w)
        \/ ReloadFitStep(w)
        \/ ReloadSwapEngine(w)
        \/ ReloadSwapParams(w)
        \/ \E file \in UploadFiles : Upload(w, file)
        \/ \E body \in QueryBodies : QueryApprox(w, body)
        \/ QueryExact(w)

ApiSpec == ApiInit /\ [][ApiNext]_vars

-----------------------------------------------------------------------------
(* Properties of the serving layer *)

ServingState == <<aqe_engine, raw_df, engine_params>>

\* the step that sends an error response of /reload or /upload changes none of
\* the globals, and the request has assigned none of them before
C2_Step ==
    \A w \in 1..MaxRequests :
        (req[w].resp = 0 /\ req'[w].resp >= 400 /\ req'[w].kind \in {"reload", "upload"}) =>
            /\ ServingState' = ServingState
            /\ ~req'[w].wrote

\* C2: a /reload or /upload request that ends with an error response leaves the
\* serving state as it was: the step that sends the error changes none of
\* aqe_engine, raw_df and engine_params, and the request has assigned none of
\* them before.
C2_FailedRequestLeavesServingState == [][C2_Step]_vars

\* C2's case: a reload whose fit raised has answered 500, and the engine in
\* service is still another, fitted, instance
C2_Witness ==
    \E w \in 1..MaxRequests :
        /\ req[w].kind = "reload"
        /\ req[w].resp = 500
        /\ req[w].eid # 0
        /\ engines[req[w].eid].f.pc = "raised"
        /\ aqe_engine # req[w].eid
        /\ engines[aqe_engine].f.pc = "done"

\* an instance whose fit is complete: the sample table is a draw made with the
\* instance's own sample_frac, and every configured column has its sketch, fed
\* with every value of the column
FullyFitted(h) ==
    /\ h.f.pc = "done"
    /\ h.b \in Draws(h.d, ENGINE_COLUMN_CONFIG.dim_cols, h.f.e.sample_frac)
    /\ h.f.e.sample_df = Frame(h.d.columns, DrawRows(h.d, h.b))
    /\ DOMAIN h.f.e.hll_sketches = Range(ENGINE_COLUMN_CONFIG.distinct_cols)
    /\ \A col \in DOMAIN h.f.e.hll_sketches :
         h.f.e.hll_sketches[col] = {PyStr(DropNa(h.d, col)[j]) : j \in 1..Len(DropNa(h.d, col))}
    /\ DOMAIN h.f.e.kll_sketches = Range(ENGINE_COLUMN_CONFIG.numeric_cols)
    /\ \A col \in DOMAIN h.f.e.kll_sketches :
         h.f.e.kll_sketches[col] = [j \in 1..Len(DropNa(h.d, col)) |-> DropNa(h.d, col)[j].v]

\* the engine in service has completed fit
C3_Published == aqe_engine # 0 => FullyFitted(engines[aqe_engine])

\* aqe_engine is assigned alone, to an instance whose fit had returned, and an
\* instance whose fit has returned stays as it is
C3_Step ==
    /\ aqe_engine' # aqe_engine =>
          /\ aqe_engine' \in DOMAIN engines
          /\ engines[aqe_engine'].f.pc = "done"
          /\ UNCHANGED <<raw_df, engine_params, engines>>
    /\ \A i \in DOMAIN engines : engines[i].f.pc = "done" => engines'[i] = engines[i]

\* C3: while a reload builds a replacement next to running queries, the engine
\* the current-engine reference leads to has completed fit (sample table and
\* every configured sketch built, sample fraction the one the sample was drawn
\* with); the reference changes by one assignment, made after fit returned; an
\* instance whose fit has returned is not changed again.
C3_OnlyFittedEnginesPublished == []C3_Published /\ [][C3_Step]_vars

\* C3's case: one thread is in the middle of fit (one of two cardinality
\* sketches built) while another has had its query answered by the engine in
\* service
C3_Witness ==
    \E w1, w2 \in 1..MaxRequests :
        /\ req[w1].kind = "reload" /\ req[w1].pc = "fitting"
        /\ engines[req[w1].eid].f.pc = "hll" /\ engines[req[w1].eid].f.i = 2
        /\ req[w2].kind = "query" /\ req[w2].pc = "exact"
        /\ req[w2].approx_eid = aqe_engine
        /\ aqe_engine # req[w1].eid

-----------------------------------------------------------------------------
(* SketchingQueryEngine (loader/sketching.py); UnifiedQueryEngine            *)
(* (combined.py) carries the same _hyperloglog and _countmin                 *)

\* 1.04, in thousandths
HllErrorConst == 1040

\* int(math.log2(num / den)) for num >= den > 0: the largest p with 2^p <= num / den
Log2Floor(num, den) == CHOOSE p \in 0..40 : 2^p * den <= num /\ 2^(p + 1) * den > num

\* p = max(4, int(math.log2((1.04 / error_tolerance) ** 2)))
HllP(tol) ==
    LET l == Log2Floor(HllErrorConst * HllErrorConst, tol * tol)
    IN  IF l > 4 THEN l ELSE 4

\* datasketch's HyperLogLog(p=p) accepts 4 <= p <= 16 and raises ValueError otherwise
HyperLogLogCtorOk(p) == 4 <= p /\ p <= 16

\* _hyperloglog(col, error_tolerance): every value of the column, a missing one
\* included, is updated into the sketch as str(v)
hyperloglog(col, tol) ==
    LET p == HllP(tol)
        fed == {PyStr(col[j]) : j \in DOMAIN col}
    IN  IF HyperLogLogCtorOk(p)
        THEN [op |-> "hyperloglog", tol |-> tol, p |-> p, raised |-> FALSE,
              fed |-> fed, result |-> Cardinality(fed)]
        ELSE [op |-> "hyperloglog", tol |-> tol, p |-> p, raised |-> TRUE,
              fed |-> {}, result |-> 0]

\* the NaN object self.df[col].unique() returns; the NaN objects the loop over
\* self.df[col] hashes are NaN. hash() of a NaN depends on the object (Python
\* from 3.10 on) or is 0 (before), so the two may or may not share their cells.
NanUnique == [k |-> "nan", v |-> 1]

\* the objects _countmin hashes for a column
HashedKeys(col) ==
    Range(col) \cup (IF NaN \in Range(col) THEN {NanUnique} ELSE {})

\* self.df[col].unique()
Unique(col) ==
    {c \in Range(col) : c.k # "nan"} \cup (IF NaN \in Range(col) THEN {NanUnique} ELSE {})

\* two of the w cells of a sketch row: what a hash function decides is which
\* keys share a cell
HashCells == {0, 1}

\* w = max(10, int(2 / error_tolerance))
CmsWidth(tol) == IF (2 * Permille) \div tol > 10 THEN (2 * Permille) \div tol ELSE 10

\* d = max(5, int(math.log2(1 / error_tolerance)))
CmsDepth(tol) == IF Log2Floor(Permille, tol) > 5 THEN Log2Floor(Permille, tol) ELSE 5

\* hash_funcs: one function per seed, any function whatever
HashFuncs(col, tol) == [1..CmsDepth(tol) -> [HashedKeys(col) -> HashCells]]

\* sketch[i][cell] once every value of the column has been added
CmsCounter(col, h, i, cell) == Cardinality({j \in DOMAIN col : h[i][col[j]] = cell})

RECURSIVE SetMin(_)
SetMin(S) ==
    LET x == CHOOSE y \in S : TRUE
    IN  IF S = {x} THEN x
        ELSE LET m == SetMin(S \ {x}) IN IF x < m THEN x ELSE m

\* _countmin(col, error_tolerance), with hash_funcs = h
countmin(col, tol, h) ==
    [op |-> "countmin", tol |-> tol, w |-> CmsWidth(tol), d |-> CmsDepth(tol),
     result |-> [v \in Unique(col) |->
                   SetMin({CmsCounter(col, h, i, h[i][v]) : i \in 1..CmsDepth(tol)})]]

\* the columns a query names: up to MaxRows cells, numbers and missing values
\* (the order of the cells plays no part in either sketch)
SketchCells == <<Num(1), Num(2), NaN>>
SketchColumns ==
    UNION {{[i \in 1..m |-> SketchCells[s[i]]] :
              s \in {t \in [1..m -> 1..Len(SketchCells)] : \A i \in 1..(m - 1) : t[i] <= t[i + 1]}} :
           m \in 0..MaxRows}

\* error tolerances: every thousandth of [0.001, 0.10], and 0.5
HllTolerances == (1..100) \cup {500}
CmsTolerances == {50, 100}

SketchInit ==
    /\ sk_col \in SketchColumns
    /\ sk_out = NoCall
    /\ EngineIdle /\ ApiIdle /\ SamplingIdle /\ AccuracyIdle /\ StreamIdle

\* run_query("COUNT DISTINCT <col>", error_tolerance); the engine keeps nothing
\* from one call to the next, so a run makes one call
Hyperloglog ==
    /\ sk_out = NoCall
    /\ \E tol \in HllTolerances : sk_out' = hyperloglog(sk_col, tol)
    /\ UNCHANGED <<sk_col, engineVars, apiVars, samplingVars, accuracyVars, streamVars>>

\* run_query("GROUPBY <col>", error_tolerance)
Countmin ==
    /\ sk_out = NoCall
    /\ \E tol \in CmsTolerances : \E h \in HashFuncs(sk_col, tol) :
         sk_out' = countmin(sk_col, tol, h)
    /\ UNCHANGED <<sk_col, engineVars, apiVars, samplingVars, accuracyVars, streamVars>>

SketchNext == Hyperloglog \/ Countmin

SketchSpec == SketchInit /\ [][SketchNext]_vars

\* the number of cells of the column that hold the key (a missing value for
\* the NaN key)
TrueCount(col, v) ==
    Cardinality({j \in DOMAIN col : IF v.k = "nan" THEN col[j].k = "nan" ELSE col[j] = v})

\* C11: for every error tolerance in [0.001, 0.10] the HyperLogLog precision
\* derived from it lies between 4 and 18.
C11_HllPrecisionClamped ==
    (sk_out.op = "hyperloglog" /\ sk_out.tol >= 1 /\ sk_out.tol <= 100) =>
        (4 <= sk_out.p /\ sk_out.p <= 18)

\* C12: the estimate the Count-Min sketch returns for a key of the column is
\* never below the number of times the key occurs in the column.
C12_CountMinNeverUnderestimates ==
    sk_out.op = "countmin" =>
        \A v \in DOMAIN sk_out.result : sk_out.result[v] >= TrueCount(sk_col, v)

\* C16: the values fed into the distinct-count sketch are exactly the
\* non-missing values of the column.
C16_HllSkipsMissingValues ==
    (sk_out.op = "hyperloglog" /\ ~sk_out.raised) =>
        sk_out.fed = {PyStr(sk_col[j]) : j \in {x \in DOMAIN sk_col : sk_col[x].k # "nan"}}

-----------------------------------------------------------------------------
(* SamplingQueryEngine._reservoir_sampling (loader/sampling.py)              *)

\* the largest number of rows of the dataset the reservoir is drawn from
MaxReservoirRows == 101

\* the least reservoir size: k = max(100, ...)
ReservoirFloor == 100

\* k = max(100, int(len(self.df) * (1 - error_tolerance)))
ReservoirK(n, tol) ==
    LET t == (n * (Permille - tol)) \div Permille
    IN  IF t > ReservoirFloor THEN t ELSE ReservoirFloor

\* error tolerances for which the chooser takes the reservoir strategy for COUNT
ReservoirTolerances == {50, 100}

\* reservoir[j] = row appends nothing: the slot is overwritten
ReservoirPutAppending(reservoir, j, row) == Append(reservoir, row)

\* reservoir[j] = row, j counted from 0
ReservoirPut(reservoir, j, row) == [reservoir EXCEPT ![j + 1] = row]

\* _execute_on_sample("COUNT", None, sample, frac, ...): len(sample) / frac, with
\* frac = num / den, as the fraction (len(sample) * den) / num
execute_on_sample_count(sample, frac) ==
    [num |-> Len(sample) * frac.den, den |-> frac.num]

SamplingInit ==
    /\ rsv = NoCall
    /\ EngineIdle /\ ApiIdle /\ SketchIdle /\ AccuracyIdle /\ StreamIdle

\* run_query("COUNT", error_tolerance) on a dataset of n rows, up to the loop of
\* _reservoir_sampling: a row is its index in the dataset, i is the number of
\* rows the loop has taken
ReservoirStart ==
    /\ rsv = NoCall
    /\ \E n \in 0..MaxReservoirRows : \E tol \in ReservoirTolerances :
         rsv' = [op |-> "reservoir", pc |-> "loop", n |-> n, tol |-> tol,
                 k |-> ReservoirK(n, tol), i |-> 0, reservoir |-> <<>>,
                 frac |-> [num |-> 0, den |-> 1], result |-> [num |-> 0, den |-> 1]]
    /\ UNCHANGED <<engineVars, apiVars, sketchVars, accuracyVars, streamVars>>

\* one turn of the loop, for the row of 0-based index rsv.i
ReservoirRow ==
    /\ rsv.op = "reservoir" /\ rsv.pc = "loop" /\ rsv.i < rsv.n
    /\ IF rsv.i < rsv.k
       THEN rsv' = [rsv EXCEPT !.reservoir = Append(@, rsv.i + 1), !.i = @ + 1]
       ELSE \E j \in 0..rsv.i :
              IF j < rsv.k
              THEN rsv' = [rsv EXCEPT !.reservoir = ReservoirPut(@, j, rsv.i + 1), !.i = @ + 1]
              ELSE rsv' = [rsv EXCEPT !.i = @ + 1]
    /\ UNCHANGED <<engineVars, apiVars, sketchVars, accuracyVars, streamVars>>

\* after the loop: frac = k / len(self.df) (ZeroDivisionError on an empty
\* dataset), then _execute_on_sample
ReservoirFinish ==
    /\ rsv.op = "reservoir" /\ rsv.pc = "loop" /\ rsv.i = rsv.n
    /\ IF rsv.n = 0
       THEN rsv' = [rsv EXCEPT !.pc = "raised"]
       ELSE LET frac == [num |-> rsv.k, den |-> rsv.n]
            IN  rsv' = [rsv EXCEPT !.pc = "done", !.frac = frac,
                                   !.result = execute_on_sample_count(rsv.reservoir, frac)]
    /\ UNCHANGED <<engineVars, apiVars, sketchVars, accuracyVars, streamVars>>

SamplingNext == ReservoirStart \/ ReservoirRow \/ ReservoirFinish

SamplingSpec == SamplingInit /\ [][SamplingNext]_vars

\* C13: after i rows the reservoir holds min(i, k) rows, all of them rows the
\* loop has taken from the input, and with k < N it ends with exactly k rows
\* whatever slots were drawn.
C13_ReservoirSize ==
    rsv.op = "reservoir" =>
        /\ Len(rsv.reservoir) = (IF rsv.i < rsv.k THEN rsv.i ELSE rsv.k)
        /\ \A s \in DOMAIN rsv.reservoir : rsv.reservoir[s] \in 1..rsv.i
        /\ (rsv.pc = "done" /\ rsv.k < rsv.n) => Len(rsv.reservoir) = rsv.k

\* C13's case: a run with k < N has ended, and the last row took the place of
\* an earlier one
C13_Witness ==
    /\ rsv.op = "reservoir" /\ rsv.pc = "done"
    /\ rsv.k < rsv.n
    /\ rsv.n \in Range(rsv.reservoir)
    /\ Len(rsv.reservoir) = rsv.k

\* C14: the fraction attached to the reservoir sample is rows-in-reservoir / N
\* and at most 1, so COUNT answered through the reservoir is N.
C14_ReservoirFractionRealized ==
    (rsv.op = "reservoir" /\ rsv.pc = "done") =>
        /\ rsv.frac.num * rsv.n = Len(rsv.reservoir) * rsv.frac.den
        /\ rsv.frac.num <= rsv.frac.den
        /\ rsv.result.num = rsv.n * rsv.result.den

-----------------------------------------------------------------------------
(* FastAQE on a dataset whose column names are not all lowercase            *)

\* the letter cases a dataset and its configuration spell their columns in
Spellings == {"lower", "upper", "mixed"}

Respell(name, cs) == [name EXCEPT !.cs = cs]

\* the dataset d with its columns spelled in the letter case cs
RespellFrame(d, cs) ==
    LET cols == {Respell(c, cs) : c \in d.columns}
    IN  Frame(cols, [i \in DOMAIN d.rows |->
                       [c \in cols |-> d.rows[i][CHOOSE x \in d.columns : x.base = c.base]]])

\* the configuration c with its columns spelled in the letter case cs
RespellConfig(c, cs) ==
    [dim_cols |-> [i \in DOMAIN c.dim_cols |-> Respell(c.dim_cols[i], cs)],
     numeric_cols |-> [i \in DOMAIN c.numeric_cols |-> Respell(c.numeric_cols[i], cs)],
     distinct_cols |-> [i \in DOMAIN c.distinct_cols |-> Respell(c.distinct_cols[i], cs)]]

\* an engine about to be fitted with ENGINE_COLUMN_CONFIG on a dataset that
\* spells its columns as the configuration does, in any letter case
CaseInit ==
    /\ \E cs \in Spellings :
         /\ df \in {RespellFrame(d, cs) : d \in DataFrames(MaxRows)}
         /\ cfg = RespellConfig(ENGINE_COLUMN_CONFIG, cs)
    /\ \E frac \in Fractions : eng = NewEngine(frac, DefaultHllP)
    /\ epc = "new"
    /\ fitted = StartFit(eng)
    /\ last = NoQuery
    /\ ApiIdle
    /\ ToolsIdle

CaseSpec == CaseInit /\ [][Next]_vars

\* the configured columns of a sequence that a query token names, letter case
\* apart
NamedBy(cols, w) == {c \in Range(cols) : c.base = w.base}

\* C15: a query that names a configured column in any letter case, with
\* keywords in any letter case, is routed to the summary built for that
\* column: COUNT DISTINCT reads the column's cardinality sketch, MEDIAN and
\* QUANTILE <q in [0, 1]> consult the column's quantile sketch.
C15_ColumnsMatchedCaseInsensitively ==
    Queried =>
        /\ (IsCountDistinct(LastParts) /\ NamedBy(cfg.distinct_cols, LastParts[3]) # {}) =>
              /\ last.out.kind = "ok"
              /\ \E c \in NamedBy(cfg.distinct_cols, LastParts[3]) :
                    last.out.approx_result = Cardinality(fitted.e.hll_sketches[c])
        /\ (IsMedian(LastParts) /\ NamedBy(cfg.numeric_cols, LastParts[2]) # {}) =>
              last.out.calls # <<>>

-----------------------------------------------------------------------------
(* calculate_accuracy (flask_api/engine.py)                                 *)

\* the values calculate_accuracy is called with: a number, a dict from group
\* keys to numbers, None, or a string
ANum(n) == [t |-> "num", v |-> n]
ADict(m) == [t |-> "dict", m |-> m]
ANone == [t |-> "none"]
AStr == [t |-> "str"]

Abs(x) == IF x < 0 THEN -x ELSE x

\* f"{x:.4f}" of the percentage 100 * num / den (den > 0): the number of
\* ten-thousandths of a percent, rounded to the nearest, a tie to the even one
Pct4(num, den) ==
    IF num >= 0 THEN RoundHalfEven(num * 1000000, den)
    ELSE -RoundHalfEven((-num) * 1000000, den)

\* approx.get(key, 1): a wrong default
ApproxGetOne(approx, key) == IF key \in DOMAIN approx.m THEN approx.m[key] ELSE 1

\* approx.get(key, 0)
ApproxGet(approx, key) == IF key \in DOMAIN approx.m THEN approx.m[key] ELSE 0

\* the loop over exact.items(): total_relative_error as the fraction num / den,
\* and count, after the keys of S have been taken (the order of a sum of exact
\* fractions plays no part)
RECURSIVE AccumulateErrors(_, _, _)
AccumulateErrors(approx, exact, S) ==
    IF S = {} THEN [num |-> 0, den |-> 1, count |-> 0]
    ELSE LET key == CHOOSE k \in S : TRUE
             rest == AccumulateErrors(approx, exact, S \ {key})
             exact_val == exact.m[key]
         IN  IF exact_val = 0 THEN rest
             ELSE LET approx_val == ApproxGet(approx, key)
                  IN  [num |-> rest.num * Abs(exact_val) + Abs(approx_val - exact_val) * rest.den,
                       den |-> rest.den * Abs(exact_val),
                       count |-> rest.count + 1]

\* (approx - exact) / abs(exact): the sign of the difference is kept
ErrorFracSigned(approx, exact) == [num |-> approx.v - exact.v, den |-> Abs(exact.v)]

\* error_frac = abs(approx - exact) / abs(exact)
ErrorFrac(approx, exact) == [num |-> Abs(approx.v - exact.v), den |-> Abs(exact.v)]

Report(kind) == [kind |-> kind, accuracy |-> 0, error |-> 0]

\* calculate_accuracy(approx, exact); an exception inside the try gives the
\* "(Calculation Failed: ...)" report
calculate_accuracy(approx, exact) ==
    IF exact.t = "dict" THEN
        IF DOMAIN exact.m = {} THEN Report("N/A (empty exact result)")
        ELSE IF approx.t # "dict" /\ \E k \in DOMAIN exact.m : exact.m[k] # 0
        THEN Report("(Calculation Failed)")
        ELSE LET t == AccumulateErrors(approx, exact, DOMAIN exact.m)
             IN  IF t.count = 0 THEN Report("N/A (no valid groups to compare)")
                 ELSE [kind |-> "(Avg. Relative Error)", accuracy |-> 0,
                       error |-> Pct4(t.num, t.den * t.count)]
    ELSE IF exact.t = "num" THEN
        IF exact.v = 0 THEN
            IF approx.t = "num" /\ approx.v = 0
            THEN [kind |-> "accuracy (Error)", accuracy |-> 1000000, error |-> 0]
            ELSE Report("N/A (Exact result is 0)")
        ELSE IF approx.t # "num" THEN Report("(Calculation Failed)")
        ELSE LET error_frac == ErrorFrac(approx, exact)
             IN  [kind |-> "accuracy (Error)",
                  accuracy |-> Pct4(error_frac.den - error_frac.num, error_frac.den),
                  error |-> Pct4(error_frac.num, error_frac.den)]
    ELSE Report("(Unsupported data type for comparison)")

\* the arguments: group keys, exact values (a negative one, zero), approximate
\* values
AccKeys == {"A", "B"}
ExactVals == {-2, 0, 3}
ApproxVals == {0, 3, 4}
Dicts(vals) == UNION {[K -> vals] : K \in SUBSET AccKeys}
ExactArgs == {ADict(m) : m \in Dicts(ExactVals)} \cup {ANum(n) : n \in ExactVals} \cup {ANone, AStr}
ApproxArgs == {ADict(m) : m \in Dicts(ApproxVals)} \cup {ANum(n) : n \in ApproxVals} \cup {ANone}

AccuracyInit ==
    /\ \E a \in ApproxArgs, e \in ExactArgs : acc = [op |-> "args", approx |-> a, exact |-> e]
    /\ EngineIdle /\ ApiIdle /\ SketchIdle /\ SamplingIdle /\ StreamIdle

\* calculate_accuracy(approx, exact) is called
CalculateAccuracy ==
    /\ acc.op = "args"
    /\ acc' = [op |-> "calculate_accuracy", approx |-> acc.approx, exact |-> acc.exact,
               report |-> calculate_accuracy(acc.approx, acc.exact)]
    /\ UNCHANGED <<engineVars, apiVars, sketchVars, samplingVars, streamVars>>

AccuracyNext == CalculateAccuracy

AccuracySpec == AccuracyInit /\ [][AccuracyNext]_vars

RECURSIVE SetProd(_, _)
SetProd(f, S) == IF S = {} THEN 1 ELSE LET x == CHOOSE y \in S : TRUE IN f[x] * SetProd(f, S \ {x})

\* the keys of the exact mapping with a nonzero value
NonzeroKeys(exact) == {k \in DOMAIN exact.m : exact.m[k] # 0}

\* the mean over the keys of S of |a[k] - e[k]| / |e[k]|, with a[k] = 0 for a key
\* the approximate mapping lacks, on the common denominator of the terms
MeanRelativeError(approx, exact, S) ==
    LET D == SetProd([k \in S |-> Abs(exact.m[k])], S)
        a == [k \in S |-> IF k \in DOMAIN approx.m THEN approx.m[k] ELSE 0]
    IN  [num |-> SumOver([k \in S |-> Abs(a[k] - exact.m[k]) * (D \div Abs(exact.m[k]))], S),
         den |-> D * Cardinality(S)]

\* C17: for a grouped exact result the report is the mean relative error over
\* exactly the keys of the exact mapping with a nonzero value, 0 standing for a
\* key the approximate mapping lacks and keys of the approximate mapping alone
\* being ignored; an empty or all-zero exact mapping gives a 'not applicable'
\* report.
C17_GroupedAccuracy ==
    (acc.op = "calculate_accuracy" /\ acc.exact.t = "dict" /\ acc.approx.t = "dict") =>
        LET S == NonzeroKeys(acc.exact)
            m == MeanRelativeError(acc.approx, acc.exact, S)
        IN  IF S = {}
            THEN acc.report.kind \in {"N/A (empty exact result)", "N/A (no valid groups to compare)"}
            ELSE /\ acc.report.kind = "(Avg. Relative Error)"
                 /\ acc.report.error = Pct4(m.num, m.den)

\* C17's case: the exact mapping has a key with value zero and a key the
\* approximate mapping lacks, the approximate mapping a key of its own
C17_Witness ==
    /\ acc.op = "calculate_accuracy"
    /\ acc.exact = ADict([k \in {"A", "B"} |-> IF k = "A" THEN 3 ELSE 0])
    /\ acc.approx = ADict([k \in {"B"} |-> 4])
    /\ acc.report.kind = "(Avg. Relative Error)"
    /\ acc.report.error = 1000000

\* C18: for a scalar exact result other than 0 the report gives error =
\* |approx - exact| / |exact| and accuracy = 100 x (1 - error), the two summing
\* to 100; for exact = 0 it gives 100% when approx is 0 and 'not applicable'
\* otherwise.
C18_ScalarAccuracy ==
    (acc.op = "calculate_accuracy" /\ acc.exact.t = "num" /\ acc.approx.t = "num") =>
        IF acc.exact.v = 0
        THEN IF acc.approx.v = 0
             THEN acc.report = [kind |-> "accuracy (Error)", accuracy |-> 1000000, error |-> 0]
             ELSE acc.report.kind = "N/A (Exact result is 0)"
        ELSE /\ acc.report.kind = "accuracy (Error)"
             /\ acc.report.error =
                   Pct4(Abs(acc.approx.v - acc.exact.v), Abs(acc.exact.v))
             /\ acc.report.accuracy + acc.report.error = 100 * 10000

\* C18's case: a negative exact value and an approximation further away than
\* the exact value itself (an accuracy below zero)
C18_Witness ==
    /\ acc.op = "calculate_accuracy"
    /\ acc.exact = ANum(-2) /\ acc.approx = ANum(4)
    /\ acc.report = [kind |-> "accuracy (Error)", accuracy |-> -2000000, error |-> 3000000]

-----------------------------------------------------------------------------
(* /upload with a good file *)

\* required_cols of upload_file
RequiredCols == ConfiguredCols(ENGINE_COLUMN_CONFIG)

\* C19: an /upload request with a file of an allowed type that pandas reads and
\* that has every required column ends with a success response, having put
\* the engine and the dataset built from the file in service.
C19_UploadSucceeds ==
    \A w \in 1..MaxRequests :
        (/\ req[w].kind = "upload" /\ req[w].resp # 0
         /\ req[w].file.part /\ allowed_file(req[w].file) /\ req[w].file.readable
         /\ RequiredCols \subseteq req[w].file.columns) =>
            (req[w].resp = 200 /\ req[w].wrote)

-----------------------------------------------------------------------------
(* StreamingQueryEngine (continuous.py)                                     *)

\* the clock runs from 0 to MaxClock seconds
MaxClock == 3

\* the largest number of rows ingested in a run
MaxIngested == 3

\* the rows ingest is called with: dicts from column names to numbers
StreamRows ==
    {(N("amount") :> 1),
     (N("amount") :> 2),
     (N("amount") :> 1) @@ (N("price") :> 5)}

\* the arguments of sliding_window
Windows == {1, 3}
StreamQueries == {NU("count"), NU("sum"), N("sum"), NM("avg"), NU("max")}
StreamQueryCols == {N("amount"), N("price")}

\* StreamingQueryEngine(): an empty deque, and self.columns = None (the empty
\* set here: no row is without columns)
StreamInit ==
    /\ stream = [data |-> <<>>, columns |-> {}]
    /\ st_now = 0
    /\ st_log = <<>>
    /\ st_out = NoCall
    /\ EngineIdle /\ ApiIdle /\ SketchIdle /\ SamplingIdle /\ AccuracyIdle

\* time passes
Tick ==
    /\ st_now < MaxClock
    /\ st_now' = st_now + 1
    /\ UNCHANGED <<stream, st_log, st_out>>
    /\ UNCHANGED <<engineVars, apiVars, sketchVars, samplingVars, accuracyVars>>

\* ingest(row): a row whose columns differ from self.columns raises ValueError
\* and is not appended
Ingest ==
    /\ Len(st_log) < MaxIngested
    /\ \E row \in StreamRows :
         LET columns == IF stream.columns = {} THEN DOMAIN row ELSE stream.columns
         IN  IF DOMAIN row # columns
             THEN stream' = [stream EXCEPT !.columns = columns] /\ st_log' = st_log
             ELSE /\ stream' = [data |-> Append(stream.data, [ts |-> st_now, row |-> row]),
                                columns |-> columns]
                  /\ st_log' = Append(st_log, [ts |-> st_now, row |-> row])
    /\ UNCHANGED <<st_now, st_out>>
    /\ UNCHANGED <<engineVars, apiVars, sketchVars, samplingVars, accuracyVars>>

\* while self.data and now - self.data[0][0] > window_size_sec: self.data.popleft()
RECURSIVE PopOld(_, _, _)
PopOld(data, now, window) ==
    IF data # <<>> /\ now - Head(data).ts > window THEN PopOld(Tail(data), now, window)
    ELSE data

\* [row[column] for ts, row in self.data if column in row]
WindowValues(data, column) ==
    LET F[i \in 0..Len(data)] ==
            IF i = 0 THEN <<>>
            ELSE IF column \in DOMAIN data[i].row
                 THEN Append(F[i - 1], data[i].row[column])
                 ELSE F[i - 1]
    IN  F[Len(data)]

\* the aggregate of a list of values, as the fraction num / den; no value
\* gives 0, an unknown query raises ValueError
Aggregate(values, agg) ==
    IF values = <<>> THEN [raised |-> FALSE, num |-> 0, den |-> 1]
    ELSE IF Upper(agg) = NU("count") THEN [raised |-> FALSE, num |-> Len(values), den |-> 1]
    ELSE IF Upper(agg) = NU("sum") THEN [raised |-> FALSE, num |-> SeqSum(values), den |-> 1]
    ELSE IF Upper(agg) = NU("avg") THEN [raised |-> FALSE, num |-> SeqSum(values), den |-> Len(values)]
    ELSE [raised |-> TRUE, num |-> 0, den |-> 1]

\* sliding_window(window_size_sec, query, column): the rows older than the
\* window are removed from self.data, then the remaining rows are aggregated
SlidingWindow ==
    /\ \E window \in Windows, agg \in StreamQueries, column \in StreamQueryCols :
         LET data == PopOld(stream.data, st_now, window)
         IN  /\ stream' = [stream EXCEPT !.data = data]
             /\ st_out' = [op |-> "sliding_window", window |-> window, query |-> agg,
                           column |-> column, now |-> st_now, log |-> st_log,
                           result |-> Aggregate(WindowValues(data, column), agg)]
    /\ UNCHANGED <<st_now, st_log>>
    /\ UNCHANGED <<engineVars, apiVars, sketchVars, samplingVars, accuracyVars>>

StreamNext == Tick \/ Ingest \/ SlidingWindow

StreamSpec == StreamInit /\ [][StreamNext]_vars

\* the rows ingested no longer than window seconds before now
InWindow(log, now, window) ==
    LET F[i \in 0..Len(log)] ==
            IF i = 0 THEN <<>>
            ELSE IF now - log[i].ts <= window THEN Append(F[i - 1], log[i]) ELSE F[i - 1]
    IN  F[Len(log)]

\* C20: sliding_window aggregates over every ingested row whose timestamp lies
\* within the last W seconds, whatever windows earlier calls were made with.
C20_SlidingWindowSeesWholeWindow ==
    st_out.op = "sliding_window" =>
        st_out.result =
            Aggregate(WindowValues(InWindow(st_out.log, st_out.now, st_out.window), st_out.column),
                      st_out.query)

-----------------------------------------------------------------------------
(* fit called a second time on the same FastAQE instance                    *)

\* engine.fit(df2, dim_cols, numeric_cols, distinct_cols) on an instance that
\* fit has already returned from, with another dataset and the same columns
Refit ==
    /\ epc = "ready"
    /\ \E d2 \in DataFrames(MaxRows) \ {df} :
         \E b \in Draws(d2, cfg.dim_cols, eng.sample_frac) :
           LET f == fit(eng, d2, cfg, b)
           IN  /\ df' = d2
               /\ eng' = f.e
               /\ epc' = IF f.pc = "done" THEN "refitted" ELSE "refit failed"
    /\ UNCHANGED <<cfg, fitted, last>>
    /\ UNCHANGED <<apiVars, toolVars>>

RefitNext == Fit \/ Refit

RefitSpec == Init /\ [][RefitNext]_vars

\* C21: after a second fit on the same instance with a different dataset, the
\* sample table, every cardinality sketch and every quantile sketch reflect
\* the second dataset alone.
C21_SummariesOfOneDataset ==
    epc = "refitted" =>
        /\ Range(eng.sample_df.rows) \subseteq Range(df.rows)
        /\ \A col \in Range(cfg.distinct_cols) :
              eng.hll_sketches[col] = {PyStr(v) : v \in Range(DropNa(df, col))}
        /\ \A col \in Range(cfg.numeric_cols) :
              eng.kll_sketches[col] = NumericPrefix(DropNa(df, col))

-----------------------------------------------------------------------------
(* /query: the two results of one request *)

====
